---- MODULE Spec2Model ----
(***************************************************************************)
(* Randora-Viewer: the two-phase batch renamer of                          *)
(* app/services/batch_ops.py, run against a small file system.             *)
(*                                                                         *)
(* A path is a record [dir, name]; the file system maps each path that     *)
(* exists to the identity of the file stored there.  Path.rename follows   *)
(* os.rename: it raises when the source is missing, replaces an existing   *)
(* target on POSIX and raises FileExistsError on Windows; on top of that   *)
(* the environment may make a rename raise that would otherwise succeed    *)
(* (permissions, a locked file), at most MaxFaults times per run.          *)
(* Path.exists() is taken to answer truthfully, and uuid4 tokens to be     *)
(* fresh: no two temp names share a token.                                 *)
(***************************************************************************)
EXTENDS Integers, Sequences, FiniteSets, TLC

\* ------------------------------------------------------------ bounds
MaxBatch == 2
MaxFaults == 2
\* entries in a listed folder
MaxEntries == 4

\* ------------------------------------------------------------ paths
Pics == "/pics"
Sub == "/pics/sub"
\* "/pics/sub/.." is another spelling of /pics: resolve() collapses it.
PicsAlias == "/pics/sub/.."

P(d, n) == [dir |-> d, name |-> n]
NoPath == P("", "")

\* Path.resolve(): the canonical absolute path.
Resolve(p) == IF p.dir = PicsAlias THEN P(Pics, p.name) ELSE p

\* Path.with_name(name) raises ValueError for these.
InvalidNames == {"", ".", "sub/x.jpg"}
WithNameRaises(n) == n \in InvalidNames
\* a path built from the name alone lands in one fixed folder
WithNameElsewhere(p, n) == P(Pics, n)
\* Path.with_name(name): same folder, new final component
WithName(p, n) == P(p.dir, n)

\* uuid.uuid4().hex of the k-th token drawn.
UuidHex == <<"u1", "u2", "u3", "u4", "u5", "u6", "u7", "u8">>
TempName(k, n) == "__rvtmp__" \o UuidHex[k] \o "__" \o n

\* a renamer without the temp pass would work on the file where it is
TempPathInPlace(img, k) == img
\* line 23: the temp path of an input
TempPath(img, k) == WithName(img, TempName(k, img.name))

\* ------------------------------------------------------------ inputs
InputPaths == {P(Pics, "a.jpg"), P(Pics, "b.jpg"), P(Sub, "a.jpg")}
InitialDisks ==
    LET base == (P(Pics, "a.jpg") :> "A") @@ (P(Pics, "b.jpg") :> "B")
                @@ (P(Sub, "a.jpg") :> "S")
    IN  {base, base @@ (P(Pics, "img_1.jpg") :> "I")}
CurrentPaths == {NoPath, P(Pics, "a.jpg"), P(PicsAlias, "b.jpg")}
Batches == UNION {[1..n -> InputPaths] : n \in 0..MaxBatch}

\* what build_name may answer: None, a string, or an exception
None == [kind |-> "none", name |-> ""]
Str(s) == [kind |-> "str", name |-> s]
Raise == [kind |-> "raise", name |-> ""]
AnswerNames == {"", "sub/x.jpg", "a.jpg", "b.jpg", "img_1.jpg", "img_2.jpg"}
Answers == {None, Raise} \cup {Str(s) : s \in AnswerNames}
\* line 35: not new_name
Falsy(a) == a.kind = "none" \/ a.name = ""

\* every name the renamer can give a temp file
PlainNames == AnswerNames \cup {p.name : p \in InputPaths}
TempNames == {TempName(k, n) : k \in DOMAIN UuidHex, n \in PlainNames}
IsTemp(p) == p.name \in TempNames

VARIABLES
    posix,        \* TRUE: os.rename replaces an existing target
    disk,         \* path -> file identity, for the paths that exist
    disk0,        \* the file system when the call was made
    run,          \* 1: the first call, 2: a second call on its results
    uuids,        \* uuid4 tokens drawn so far
    images,       \* argument: the batch
    current_path, \* argument: the path of interest (NoPath: None)
    pc,           \* "phase1", "phase2", "returned", "raised"
    i,            \* phase 1: index of the next input
    temp_paths,   \* list of <<tmp, original>>
    j,            \* phase 2: index of the next entry of temp_paths
    renamed, skipped, failed, replacement,
    faults,       \* renames the environment has made raise in this run
    calls,        \* history: build_name calls [idx, tmp, original, answer]
    renames,      \* history: rename attempts, in order
    entries       \* history: per phase-2 entry, its branch and its counts

\* fs_service.list_images
VARIABLES
    folder,       \* what the folder argument is: "dir", "file" or "locked"
    tree,         \* the entries below the folder
    recursive,    \* argument
    extensions,   \* argument: None or Exts(set of strings)
    iterator,     \* entries rglob / iterdir has still to produce
    found,        \* paths iter_image_files has yielded, in order
    listing,      \* the list returned
    lpc           \* "start", "loop", "returned", "raised" ("idle": no call)

\* ui.main_window.MainWindow
VARIABLES
    _images,        \* the image list
    _current_index,
    _random_mode,
    canvas,         \* the image on display (NoImage: cleared, or not loadable)
    has_prev,       \* what nav_container.set_enabled was last given
    has_next,
    links,          \* the paths of the opened folder that are symbolic links
    files,          \* the file paths of the opened folder that still exist
    last            \* history: the last handler, its inputs, the state before

\* services.session_store
VARIABLES
    state_file,     \* what _STATE_FILE holds
    session_ops     \* history: the last two operations on the session store

renamer == <<disk, disk0, run, uuids, images, current_path, pc, i,
             temp_paths, j, renamed, skipped, failed, replacement, faults,
             calls, renames, entries>>
lister == <<folder, tree, recursive, extensions, iterator, found, listing, lpc>>
window == <<_images, _current_index, _random_mode, canvas, has_prev, has_next,
            links, files, last>>
store == <<state_file, session_ops>>
vars == <<posix, renamer, lister, window, store>>

\* no two_phase_rename call is under way
RenamerIdle ==
    /\ disk = <<>> /\ disk0 = <<>>
    /\ run = 1 /\ uuids = 0
    /\ images = <<>> /\ current_path = NoPath
    /\ pc = "idle"
    /\ i = 1 /\ j = 1
    /\ temp_paths = <<>>
    /\ renamed = 0 /\ skipped = 0 /\ failed = 0
    /\ replacement = NoPath
    /\ faults = 0
    /\ calls = <<>> /\ renames = <<>> /\ entries = <<>>
\* no list_images call is under way
ListerIdle ==
    /\ folder = "dir" /\ tree = {}
    /\ recursive = FALSE /\ extensions = None
    /\ iterator = {} /\ found = <<>> /\ listing = <<>>
    /\ lpc = "idle"
\* _STATE_FILE does not exist
NoFile == [kind |-> "missing", shape |-> "", members |-> <<>>]
\* no session has been loaded or saved
StoreIdle ==
    /\ state_file = NoFile
    /\ session_ops = <<>>
NoImage == <<>>
\* main_window.py lines 57-65: the window as constructed
WindowIdle ==
    /\ _images = <<>>
    /\ _current_index = 0
    /\ _random_mode = FALSE
    /\ canvas = NoImage
    /\ has_prev = FALSE /\ has_next = FALSE
    /\ links = {}
    /\ files = {}
    /\ last = [op |-> "init", selected |-> NoImage, ok |-> TRUE,
               images |-> <<>>, index |-> 0, canvas |-> NoImage]

\* ------------------------------------------------------------ os.rename
Exists(d, p) == p \in DOMAIN d

\* Path.rename(src -> dst) succeeds
RenameOk(d, src, dst, fault) ==
    /\ ~fault
    /\ Exists(d, src)
    /\ (posix \/ ~Exists(d, dst))

\* a copy leaves the source where it was
MovedCopy(d, src, dst) ==
    [p \in DOMAIN d \cup {dst} |-> IF p = dst THEN d[src] ELSE d[p]]
\* the file system after a successful rename
Moved(d, src, dst) ==
    [p \in (DOMAIN d \ {src}) \cup {dst} |-> IF p = dst THEN d[src] ELSE d[p]]

\* the file a successful rename replaces ("-" when none)
Lost(d, src, dst) == IF Exists(d, dst) /\ dst # src THEN d[dst] ELSE "-"

\* the record of one rename attempt: op is "temp", "final" or "restore",
\* pos the index of the input (temp) or of the temp_paths entry (the others)
Attempt(op, pos, d, src, dst, fault) ==
    LET ok == RenameOk(d, src, dst, fault)
    IN  [op |-> op, pos |-> pos, src |-> src, dst |-> dst, ok |-> ok,
         lost |-> IF ok THEN Lost(d, src, dst) ELSE "-"]

After(d, src, dst, fault) ==
    IF RenameOk(d, src, dst, fault) THEN Moved(d, src, dst) ELSE d

Cost(fault) == IF fault THEN 1 ELSE 0
\* the environment may fail a rename that would otherwise succeed, while
\* `used` failures stay below the budget
FaultChoices(used, d, src, dst) ==
    IF used < MaxFaults /\ RenameOk(d, src, dst, FALSE) THEN BOOLEAN ELSE {FALSE}

\* ------------------------------------------------------------ two_phase_rename
Init ==
    /\ posix \in BOOLEAN
    /\ disk \in InitialDisks
    /\ disk0 = disk
    /\ run = 1
    /\ uuids = 0
    /\ images \in Batches
    /\ current_path \in CurrentPaths
    /\ pc = "phase1"
    /\ i = 1
    /\ temp_paths = <<>>
    /\ j = 1
    /\ renamed = 0 /\ skipped = 0 /\ failed = 0
    /\ replacement = NoPath
    /\ faults = 0
    /\ calls = <<>>
    /\ renames = <<>>
    /\ entries = <<>>
    /\ ListerIdle
    /\ WindowIdle
    /\ StoreIdle

\* a temp pass that keeps an input whose rename raised
KeptAlways(tp, ok, tmp, img) == Append(tp, <<tmp, img>>)
\* lines 24-28: temp_paths after one attempt
Kept(tp, ok, tmp, img) == IF ok THEN Append(tp, <<tmp, img>>) ELSE tp

\* lines 22-28: one iteration of the temp pass
TempPass ==
    /\ UNCHANGED <<lister, window, store>>
    /\ pc = "phase1"
    /\ i <= Len(images)
    /\ LET img == images[i]
           tmp == TempPath(img, uuids + 1)
       IN  \E fault \in FaultChoices(faults, disk, img, tmp) :
            /\ disk' = After(disk, img, tmp, fault)
            /\ temp_paths' = Kept(temp_paths, RenameOk(disk, img, tmp, fault), tmp, img)
            /\ renames' = Append(renames, Attempt("temp", i, disk, img, tmp, fault))
            /\ faults' = faults + Cost(fault)
    /\ i' = i + 1
    /\ uuids' = uuids + 1
    /\ UNCHANGED <<posix, disk0, run, images, current_path, pc, j, renamed,
                   skipped, failed, replacement, calls, entries>>

\* a final pass that starts while inputs are still waiting for the temp pass
BeginFinalPassEarly ==
    /\ UNCHANGED <<lister, window, store>>
    /\ pc = "phase1"
    /\ pc' = "phase2"
    /\ UNCHANGED <<posix, disk, disk0, run, uuids, images, current_path, i,
                   temp_paths, j, renamed, skipped, failed, replacement,
                   faults, calls, renames, entries>>
\* lines 30-31: the temp pass is over
BeginFinalPass ==
    /\ UNCHANGED <<lister, window, store>>
    /\ pc = "phase1"
    /\ i > Len(images)
    /\ pc' = "phase2"
    /\ UNCHANGED <<posix, disk, disk0, run, uuids, images, current_path, i,
                   temp_paths, j, renamed, skipped, failed, replacement,
                   faults, calls, renames, entries>>

\* a 0-based sequence index
CallFromZero(idx, a) ==
    [idx |-> idx - 1, tmp |-> temp_paths[idx][1],
     original |-> temp_paths[idx][2], answer |-> a]
\* lines 33-34: build_name(idx, tmp_path, original) and what it answered
Call(idx, a) ==
    [idx |-> idx, tmp |-> temp_paths[idx][1], original |-> temp_paths[idx][2],
     answer |-> a]

\* what one entry of phase 2 did: its branch ("falsy", "taken", "final"),
\* its destination, the file that was there, and what it added to the counters
Entry(how, dest, d, r, s, f) ==
    [how |-> how, dest |-> dest,
     occupant |-> IF dest # NoPath /\ Exists(d, dest) THEN d[dest] ELSE "-",
     renamed |-> r, skipped |-> s, failed |-> f]

\* a restoration that is counted but not carried out
RestoreForgotten(d, tmp_path, original, fault) == d
\* lines 38, 46, 55: tmp_path.rename(original)
Restore(d, tmp_path, original, fault) == After(d, tmp_path, original, fault)

\* line 34: what build_name may answer in this call: anything in the first
\* call; in a second call it reproduces names of the files it is given
BuildName ==
    IF run = 1 THEN Answers ELSE {Str(images[k].name) : k \in DOMAIN images}

\* line 34: build_name raises; nothing catches it
NameRaises ==
    /\ UNCHANGED <<lister, window, store>>
    /\ pc = "phase2"
    /\ j <= Len(temp_paths)
    /\ Raise \in BuildName
    /\ calls' = Append(calls, Call(j, Raise))
    /\ pc' = "raised"
    /\ UNCHANGED <<posix, disk, disk0, run, uuids, images, current_path, i,
                   temp_paths, j, renamed, skipped, failed, replacement,
                   faults, renames, entries>>

\* lines 35-41: build_name answers None or "": skip and put the file back
SkipEntry ==
    /\ UNCHANGED <<lister, window, store>>
    /\ pc = "phase2"
    /\ j <= Len(temp_paths)
    /\ LET tmp_path == temp_paths[j][1]
           original == temp_paths[j][2]
       IN  \E a \in BuildName \ {Raise} :
            /\ Falsy(a)
            /\ calls' = Append(calls, Call(j, a))
            /\ skipped' = skipped + 1
            /\ \E fault \in FaultChoices(faults, disk, tmp_path, original) :
                LET ok == RenameOk(disk, tmp_path, original, fault)
                IN  /\ disk' = Restore(disk, tmp_path, original, fault)
                    /\ renames' = Append(renames,
                           Attempt("restore", j, disk, tmp_path, original, fault))
                    /\ failed' = IF ok THEN failed ELSE failed + 1
                    /\ entries' = Append(entries,
                           Entry("falsy", NoPath, disk, 0, 1, IF ok THEN 0 ELSE 1))
                    /\ faults' = faults + Cost(fault)
    /\ j' = j + 1
    /\ UNCHANGED <<posix, disk0, run, uuids, images, current_path, pc, i,
                   temp_paths, renamed, replacement>>

\* line 42: with_name rejects the name; the ValueError is outside the try
NameInvalid ==
    /\ UNCHANGED <<lister, window, store>>
    /\ pc = "phase2"
    /\ j <= Len(temp_paths)
    /\ \E a \in BuildName \ {Raise} :
        /\ ~Falsy(a)
        /\ WithNameRaises(a.name)
        /\ calls' = Append(calls, Call(j, a))
    /\ pc' = "raised"
    /\ UNCHANGED <<posix, disk, disk0, run, uuids, images, current_path, i,
                   temp_paths, j, renamed, skipped, failed, replacement,
                   faults, renames, entries>>

\* a check that looks at the wrong thing
DestExistsInverted(d, dest) == ~Exists(d, dest)
\* line 44: dest.exists()
DestExists(d, dest) == Exists(d, dest)

\* lines 44-47, 52-57: the destination exists: skip and put the file back; a
\* restoration that raises lands in the except clause, which counts a
\* failure and tries the restoration again
DestTaken ==
    /\ UNCHANGED <<lister, window, store>>
    /\ pc = "phase2"
    /\ j <= Len(temp_paths)
    /\ LET tmp_path == temp_paths[j][1]
           original == temp_paths[j][2]
       IN  \E a \in BuildName \ {Raise} :
            LET dest == WithName(tmp_path, a.name)
            IN  /\ ~Falsy(a)
                /\ ~WithNameRaises(a.name)
                /\ DestExists(disk, dest)
                /\ calls' = Append(calls, Call(j, a))
                /\ skipped' = skipped + 1
                /\ \E f1 \in FaultChoices(faults, disk, tmp_path, original) :
                    LET ok1 == RenameOk(disk, tmp_path, original, f1)
                        first == Attempt("restore", j, disk, tmp_path, original, f1)
                        used == faults + Cost(f1)
                    IN  IF ok1
                        THEN /\ disk' = Restore(disk, tmp_path, original, f1)
                             /\ renames' = Append(renames, first)
                             /\ failed' = failed
                             /\ entries' = Append(entries,
                                    Entry("taken", dest, disk, 0, 1, 0))
                             /\ faults' = used
                        ELSE \E f2 \in FaultChoices(used, disk, tmp_path, original) :
                             /\ disk' = Restore(disk, tmp_path, original, f2)
                             /\ renames' = renames \o <<first,
                                    Attempt("restore", j, disk, tmp_path, original, f2)>>
                             /\ failed' = failed + 1
                             /\ entries' = Append(entries,
                                    Entry("taken", dest, disk, 0, 1, 1))
                             /\ faults' = used + Cost(f2)
    /\ j' = j + 1
    /\ UNCHANGED <<posix, disk0, run, uuids, images, current_path, pc, i,
                   temp_paths, renamed, replacement>>

\* a comparison of the paths as they were spelled
IsCurrentUnresolved(original) ==
    current_path # NoPath /\ original = current_path
\* line 49: current_path and original.resolve() == current_path.resolve()
IsCurrent(original) ==
    current_path # NoPath /\ Resolve(original) = Resolve(current_path)

\* lines 48-57: the destination is free: rename to it; on failure count it
\* and put the file back, ignoring a failure of that
FinalRename ==
    /\ UNCHANGED <<lister, window, store>>
    /\ pc = "phase2"
    /\ j <= Len(temp_paths)
    /\ LET tmp_path == temp_paths[j][1]
           original == temp_paths[j][2]
       IN  \E a \in BuildName \ {Raise} :
            LET dest == WithName(tmp_path, a.name)
            IN  /\ ~Falsy(a)
                /\ ~WithNameRaises(a.name)
                /\ ~DestExists(disk, dest)
                /\ calls' = Append(calls, Call(j, a))
                /\ \E f1 \in FaultChoices(faults, disk, tmp_path, dest) :
                    LET ok1 == RenameOk(disk, tmp_path, dest, f1)
                        final == Attempt("final", j, disk, tmp_path, dest, f1)
                        used == faults + Cost(f1)
                    IN  IF ok1
                        THEN /\ disk' = After(disk, tmp_path, dest, f1)
                             /\ renames' = Append(renames, final)
                             /\ replacement' = IF IsCurrent(original) THEN dest
                                               ELSE replacement
                             /\ renamed' = renamed + 1
                             /\ failed' = failed
                             /\ entries' = Append(entries,
                                    Entry("final", dest, disk, 1, 0, 0))
                             /\ faults' = used
                        ELSE \E f2 \in FaultChoices(used, disk, tmp_path, original) :
                             /\ disk' = Restore(disk, tmp_path, original, f2)
                             /\ renames' = renames \o <<final,
                                    Attempt("restore", j, disk, tmp_path, original, f2)>>
                             /\ failed' = failed + 1
                             /\ UNCHANGED <<renamed, replacement>>
                             /\ entries' = Append(entries,
                                    Entry("final", dest, disk, 0, 0, 1))
                             /\ faults' = used + Cost(f2)
    /\ j' = j + 1
    /\ UNCHANGED <<posix, disk0, run, uuids, images, current_path, pc, i,
                   temp_paths, skipped>>

\* line 59
Return ==
    /\ UNCHANGED <<lister, window, store>>
    /\ pc = "phase2"
    /\ j > Len(temp_paths)
    /\ pc' = "returned"
    /\ UNCHANGED <<posix, disk, disk0, run, uuids, images, current_path, i,
                   temp_paths, j, renamed, skipped, failed, replacement,
                   faults, calls, renames, entries>>

Next ==
    \/ TempPass
    \/ BeginFinalPass
    \/ NameRaises
    \/ SkipEntry
    \/ NameInvalid
    \/ DestTaken
    \/ FinalRename
    \/ Return

Spec == Init /\ [][Next]_vars

\* ------------------------------------------------------------ a second call
\* After a call that renamed every input, the caller calls two_phase_rename
\* again on the files where they are now, in the same order, with a
\* build_name that reproduces names now on disk (lines 12-21).
FinalDests ==
    [k \in DOMAIN temp_paths |->
        renames[CHOOSE r \in DOMAIN renames :
                   renames[r].op = "final" /\ renames[r].pos = k].dst]
RunAgain ==
    /\ UNCHANGED <<lister, window, store>>
    /\ pc = "returned"
    /\ run = 1
    /\ renamed = Len(images) /\ skipped = 0 /\ failed = 0
    /\ images' = FinalDests
    /\ run' = 2
    /\ disk0' = disk
    /\ pc' = "phase1"
    /\ i' = 1 /\ j' = 1
    /\ temp_paths' = <<>>
    /\ renamed' = 0 /\ skipped' = 0 /\ failed' = 0
    /\ replacement' = NoPath
    /\ faults' = 0
    /\ calls' = <<>> /\ renames' = <<>> /\ entries' = <<>>
    /\ UNCHANGED <<posix, disk, uuids, current_path>>

NextAgain == Next \/ RunAgain

SpecAgain == Init /\ [][NextAgain]_vars

\* ------------------------------------------------------------ properties
Returned == pc = "returned"
N == Len(images)
Original(k) == temp_paths[k][2]
Tmp(k) == temp_paths[k][1]
\* the paths that hold the file with identity c
Where(c) == {p \in DOMAIN disk : disk[p] = c}
AllRenamesOk == \A r \in DOMAIN renames : renames[r].ok
DistinctExisting ==
    /\ \A k \in DOMAIN images : Exists(disk0, images[k])
    /\ \A k, l \in DOMAIN images : k # l => images[k] # images[l]
Named(k) == calls[k].answer.kind = "str" /\ ~WithNameRaises(calls[k].answer.name)
DestOf(k) == WithName(calls[k].tmp, calls[k].answer.name)
\* the rename attempts of kind op made for position pos
Attempts(op, pos) ==
    {r \in DOMAIN renames : renames[r].op = op /\ renames[r].pos = pos}
Succeeded(op, pos) == \E r \in Attempts(op, pos) : renames[r].ok

\* C1: two_phase_rename never loses a file: no rename it performs replaces a
\* file that exists at the target, and when it returns every input file that
\* existed at the start is found under exactly one path.
C1_NeverLosesAFile ==
    /\ \A r \in DOMAIN renames : renames[r].lost = "-"
    /\ Returned =>
         \A k \in DOMAIN images :
            Exists(disk0, images[k]) => Cardinality(Where(disk0[images[k]])) = 1

C2_Premise ==
    /\ Returned
    /\ DistinctExisting
    /\ AllRenamesOk
    /\ \A k \in DOMAIN calls :
          /\ Named(k)
          /\ ~Exists(disk0, DestOf(k))
          /\ \A l \in DOMAIN calls : l # k => DestOf(l) # DestOf(k)
\* C2: a batch of distinct existing files, names that are pairwise distinct
\* destinations and are on no path of the disk, no rename raising: everything
\* is renamed, nothing skipped or failed, every destination exists and no
\* temp-named file remains.
C2_AllRenamed ==
    C2_Premise =>
       /\ renamed = N /\ skipped = 0 /\ failed = 0
       /\ Len(calls) = N
       /\ \A k \in DOMAIN calls : Exists(disk, DestOf(k))
       /\ \A p \in DOMAIN disk : ~IsTemp(p)
C2_Witness == C2_Premise /\ N = 2 /\ renamed = 2

\* C3: no exception propagates out of two_phase_rename.
C3_NoExceptionPropagates == pc # "raised"

Interest ==
    {k \in DOMAIN temp_paths :
        current_path # NoPath /\ Resolve(Original(k)) = Resolve(current_path)}
FinalDst(k) == renames[CHOOSE r \in Attempts("final", k) : renames[r].ok].dst
C4_Example ==
    /\ images = <<P(Pics, "a.jpg"), P(Pics, "b.jpg")>>
    /\ current_path # NoPath /\ Resolve(current_path) = P(Pics, "b.jpg")
    /\ AllRenamesOk
    /\ ~Exists(disk0, P(Pics, "img_1.jpg"))
    /\ Len(calls) = 2
    /\ calls[1].answer = Str("img_1.jpg") /\ calls[2].answer = Str("img_2.jpg")
\* C4: the replacement returned is the destination of the path of interest
\* exactly when that path was supplied, was an input and its final rename
\* succeeded, and is null otherwise; [a.jpg, b.jpg] named img_<idx>.jpg with
\* b.jpg of interest gives (2, 0, 0, <folder>/img_2.jpg).
C4_Replacement ==
    Returned =>
       /\ \A k \in Interest : Succeeded("final", k) => replacement = FinalDst(k)
       /\ (~\E k \in Interest : Succeeded("final", k)) => replacement = NoPath
       /\ C4_Example =>
             <<renamed, skipped, failed, replacement>> =
                <<2, 0, 0, P(Pics, "img_2.jpg")>>
C4_Witness ==
    Returned /\ C4_Example /\ current_path = P(PicsAlias, "b.jpg")
    /\ replacement = P(Pics, "img_2.jpg")

Restored(k) == Succeeded("restore", k)
\* C5: a file for which build_name answers None or "" and whose restoration
\* succeeds is back under its original path at return and adds 1 to skipped
\* and nothing to renamed and failed; when build_name is called for all N
\* inputs and answers None each time (the restorations succeeding), the
\* result is (0, N, 0, null) and the disk is as it was.
C5_Skipped ==
    Returned =>
       /\ \A k \in DOMAIN calls :
             Falsy(calls[k].answer) /\ Restored(k) =>
                /\ <<entries[k].renamed, entries[k].skipped, entries[k].failed>>
                      = <<0, 1, 0>>
                /\ Exists(disk, Original(k))
                /\ disk[Original(k)] = disk0[Original(k)]
       /\ ( /\ Len(calls) = N
            /\ \A k \in DOMAIN calls : calls[k].answer = None /\ Restored(k) )
          => /\ <<renamed, skipped, failed, replacement>> = <<0, N, 0, NoPath>>
             /\ disk = disk0
C5_Witness ==
    /\ Returned /\ N = 2 /\ Len(calls) = 2 /\ skipped = 2 /\ failed = 0
    /\ calls[1].answer = None /\ calls[2].answer = None
    /\ disk = disk0

\* C6: a file whose destination exists when phase 2 reaches it is counted as
\* skipped and not as renamed, the occupant of the destination is left
\* untouched and the file ends under its original path (stated for the runs
\* in which the environment makes no rename raise).
C6_TakenDestinationSkips ==
    (Returned /\ faults = 0) =>
       \A k \in DOMAIN entries :
          entries[k].how = "taken" =>
             /\ entries[k].skipped = 1 /\ entries[k].renamed = 0
             /\ Exists(disk, entries[k].dest)
             /\ disk[entries[k].dest] = entries[k].occupant
             /\ Exists(disk, Original(k))
             /\ disk[Original(k)] = disk0[Original(k)]

C7_Premise ==
    /\ Returned /\ run = 2
    /\ AllRenamesOk
    /\ Len(calls) = N
    /\ \A k \in DOMAIN calls : Named(k)
    /\ {DestOf(k) : k \in DOMAIN calls} = {images[k] : k \in DOMAIN images}
\* C7 (as claimed): after a call that renamed all N files, a second call on
\* the files now on disk, with names that reproduce the names on disk and no
\* rename raising, skips all N and leaves the set of paths as it was.
C7_SecondRunSkipsAll ==
    C7_Premise =>
       /\ skipped = N /\ renamed = 0 /\ failed = 0
       /\ DOMAIN disk = DOMAIN disk0
\* C7 (amended): such a second call renames all N again: the temp pass has
\* freed every name, so no destination collides; renamed = N, skipped = 0,
\* failed = 0, and the set of paths on disk is as it was.
C7_SecondRunRenamesAll ==
    C7_Premise =>
       /\ renamed = N /\ skipped = 0 /\ failed = 0
       /\ DOMAIN disk = DOMAIN disk0
C7_Witness == C7_Premise /\ N = 2 /\ renamed = 2 /\ DOMAIN disk = DOMAIN disk0

TempOk(r) == r.op = "temp" /\ r.ok
OkTemps == SelectSeq(renames, TempOk)
\* C8: build_name is called once per successfully temp-renamed file, in
\* input order, with indices 1, 2, 3, ... over those files only; a file
\* whose temp rename failed takes no index and gets no call.
C8_CallOrder ==
    /\ Len(calls) <= Len(OkTemps)
    /\ \A k \in DOMAIN calls :
          /\ calls[k].idx = k
          /\ calls[k].original = images[OkTemps[k].pos]
          /\ calls[k].tmp = OkTemps[k].dst
    /\ \A k, l \in DOMAIN OkTemps : k < l => OkTemps[k].pos < OkTemps[l].pos
    /\ Returned => Len(calls) = Len(OkTemps)
C8_Witness ==
    /\ Returned /\ N = 2
    /\ ~renames[1].ok /\ Len(OkTemps) = 1
    /\ Len(calls) = 1 /\ calls[1].idx = 1 /\ calls[1].original = images[2]

TempFailed(m) == \E r \in Attempts("temp", m) : ~renames[r].ok
TempDone(m) == \E r \in Attempts("temp", m) : renames[r].ok
\* C9: an input whose temp rename fails stays under its original path, is
\* not in phase 2, and changes no counter: the counters count temp-renamed
\* files only, and the rest of the batch is still processed.
C9_DroppedInPhase1 ==
    /\ pc = "phase1" => renamed = 0 /\ skipped = 0 /\ failed = 0
    /\ renamed + skipped <= Len(OkTemps) /\ failed <= Len(OkTemps)
    /\ Len(temp_paths) = Len(OkTemps)
    /\ \A m \in DOMAIN images :
          TempFailed(m) =>
             /\ \A k \in DOMAIN temp_paths :
                   Tmp(k) # renames[CHOOSE r \in Attempts("temp", m) : TRUE].dst
             /\ ( /\ Exists(disk0, images[m])
                  /\ \A m2 \in DOMAIN images : images[m2] = images[m] => ~TempDone(m2) )
                => /\ Exists(disk, images[m])
                   /\ disk[images[m]] = disk0[images[m]]
    /\ Returned => Len(entries) = Len(OkTemps)
C9_Witness ==
    /\ Returned /\ N = 2 /\ images[1] # images[2]
    /\ TempFailed(1) /\ TempDone(2)
    /\ disk[images[1]] = disk0[images[1]]
    /\ renamed = 1 /\ skipped = 0 /\ failed = 0

\* C10: no two files counted as renamed end at the same destination: of two
\* batch files given the same name the first is renamed and the second
\* skipped, and at return each destination of a renamed file holds that file.
C10_RenamedDestinationsDistinct ==
    Returned =>
       \A k \in DOMAIN entries :
          entries[k].renamed = 1 =>
             /\ Exists(disk, entries[k].dest)
             /\ disk[entries[k].dest] = disk0[Original(k)]
             /\ \A l \in DOMAIN entries :
                   (l # k /\ entries[l].renamed = 1) =>
                      entries[l].dest # entries[k].dest
             /\ \A l \in DOMAIN entries :
                   (l > k /\ Named(l) /\ DestOf(l) = entries[k].dest) =>
                      entries[l].skipped = 1 /\ entries[l].renamed = 0

\* the file that input k of phase 2 is
File(k) == disk0[Original(k)]
Counts(k) == <<entries[k].renamed, entries[k].skipped, entries[k].failed>>
Finished == pc \in {"returned", "raised"}

\* C12: every file that enters phase 2 is counted in exactly one of renamed,
\* skipped, failed, so the three add up to the number of temp-renamed files;
\* a skipped file that cannot be restored counts as failed instead of
\* skipped and stays under its temp name.
C12_CountedExactlyOnce ==
    Returned =>
       /\ renamed + skipped + failed = Len(temp_paths)
       /\ \A k \in DOMAIN entries :
             /\ entries[k].renamed + entries[k].skipped + entries[k].failed = 1
             /\ (entries[k].how \in {"falsy", "taken"} /\ ~Restored(k)) =>
                   /\ Counts(k) = <<0, 0, 1>>
                   /\ Exists(disk, Tmp(k))

FinalFailed(k) ==
    /\ k \in DOMAIN entries
    /\ entries[k].how = "final"
    /\ ~Succeeded("final", k)
\* C13: a failed final rename adds exactly 1 to failed and nothing to
\* renamed and skipped, is followed by one restoration attempt whose failure
\* is swallowed (the file is under its original path if it succeeded, under
\* its temp path if not), and does not stop the batch.
C13_FinalRenameFailure ==
    /\ \A k \in DOMAIN temp_paths :
          FinalFailed(k) =>
             /\ Counts(k) = <<0, 0, 1>>
             /\ Cardinality(Attempts("restore", k)) = 1
             /\ IF Restored(k)
                THEN Where(File(k)) = {Original(k)}
                ELSE Where(File(k)) = {Tmp(k)}
    /\ pc = "phase2" => j = Len(entries) + 1
    /\ pc = "raised" =>
          LET a == calls[Len(calls)].answer
          IN  a = Raise \/ (a.kind = "str" /\ WithNameRaises(a.name))
    /\ Returned => Len(entries) = Len(temp_paths)
C13_Witness ==
    /\ Returned /\ Len(entries) = 2
    /\ FinalFailed(1) /\ Restored(1) /\ entries[2].renamed = 1
    /\ disk[Original(1)] = File(1)

\* C14: per input at most one temp rename, at most one final rename and at
\* most one restoration rename is issued: no retry of a restoration.
C14_AtMostOneAttemptEach ==
    /\ \A m \in DOMAIN images : Cardinality(Attempts("temp", m)) <= 1
    /\ \A k \in DOMAIN temp_paths :
          /\ Cardinality(Attempts("final", k)) <= 1
          /\ Cardinality(Attempts("restore", k)) <= 1

\* the one path an input file is expected under when phase 2 begins
PathAfterTempPass(m) ==
    LET done == {m2 \in DOMAIN images : images[m2] = images[m] /\ TempDone(m2)}
    IN  IF done = {} THEN images[m]
        ELSE renames[CHOOSE r \in DOMAIN renames :
                        TempOk(renames[r]) /\ renames[r].pos \in done].dst
\* C15: no build_name call and no final or restoration rename happens before
\* the temp rename of every input has been attempted; when phase 2 begins
\* every input file is under exactly one path: its temp path if its temp
\* rename succeeded, its original path if it failed.
C15_TwoPhaseOrdering ==
    /\ pc = "phase1" =>
          /\ calls = <<>> /\ entries = <<>>
          /\ \A r \in DOMAIN renames : renames[r].op = "temp"
    /\ pc # "phase1" =>
          \A m \in DOMAIN images : Cardinality(Attempts("temp", m)) = 1
    /\ \A r1, r2 \in DOMAIN renames :
          (r1 < r2 /\ renames[r2].op = "temp") => renames[r1].op = "temp"
    /\ (pc = "phase2" /\ j = 1) =>
          \A m \in DOMAIN images :
             Exists(disk0, images[m]) =>
                /\ Where(disk0[images[m]]) = {PathAfterTempPass(m)}
                /\ TempDone(m) => /\ IsTemp(PathAfterTempPass(m))
                                  /\ PathAfterTempPass(m) # images[m]
C15_Witness ==
    /\ pc = "phase2" /\ j = 1 /\ N = 2 /\ images[1] # images[2]
    /\ TempDone(1) /\ TempFailed(2)
    /\ IsTemp(PathAfterTempPass(1)) /\ PathAfterTempPass(2) = images[2]

C16_Premise ==
    /\ Returned /\ run = 1
    /\ DistinctExisting
    /\ AllRenamesOk
    /\ Len(calls) = N
    /\ \A k \in DOMAIN calls : Named(k)
    /\ {DestOf(k) : k \in DOMAIN calls} = {images[k] : k \in DOMAIN images}
\* C16: names that are a permutation of the batch's own original names, all
\* renames succeeding: every file is renamed (N, 0, 0) and ends under the
\* name given to it, with its own content.
C16_Permutation ==
    C16_Premise =>
       /\ renamed = N /\ skipped = 0 /\ failed = 0
       /\ \A k \in DOMAIN calls :
             /\ Exists(disk, DestOf(k))
             /\ disk[DestOf(k)] = File(k)
C16_Witness ==
    /\ C16_Premise
    /\ images = <<P(Pics, "a.jpg"), P(Pics, "b.jpg")>>
    /\ calls[1].answer = Str("b.jpg") /\ calls[2].answer = Str("a.jpg")
    /\ disk[P(Pics, "b.jpg")] = "A" /\ disk[P(Pics, "a.jpg")] = "B"

\* C17: the call ends having attempted the temp rename of every input
\* exactly once and having processed every temp-renamed file exactly once in
\* phase 2: no failure for one file stops the rest of the batch.
C17_RunsEveryItem ==
    Finished =>
       /\ \A m \in DOMAIN images : Cardinality(Attempts("temp", m)) = 1
       /\ Len(calls) = Len(temp_paths)
       /\ Len(entries) = Len(temp_paths)

\* C18: at return a file is under a temp name only if a restoration rename
\* of that file failed; if every restoration attempted succeeded, no
\* temp-named file is left.
C18_TempOnlyAfterFailedRestore ==
    Returned =>
       /\ \A k \in DOMAIN temp_paths :
             Exists(disk, Tmp(k)) =>
                \E r \in Attempts("restore", k) : ~renames[r].ok
       /\ (\A r \in DOMAIN renames :
              renames[r].op = "restore" => renames[r].ok)
          => \A p \in DOMAIN disk : ~IsTemp(p)
C18_Witness ==
    /\ Returned /\ Len(temp_paths) = 2
    /\ Exists(disk, Tmp(1)) /\ ~Exists(disk, Tmp(2)) /\ Restored(2)

\* the files the batch does not name
Outside == {p \in DOMAIN disk0 : \A m \in DOMAIN images : images[m] # p}
InputOf(r) == IF r.op = "temp" THEN images[r.pos] ELSE Original(r.pos)
\* C19: a file outside the batch is never moved, renamed, replaced or
\* removed by a temp, final or restoration rename, and every path the call
\* creates lies in the folder of the input it belongs to.
C19_Frame ==
    /\ \A p \in Outside : Exists(disk, p) /\ disk[p] = disk0[p]
    /\ \A r \in DOMAIN renames :
          /\ renames[r].src \notin Outside
          /\ renames[r].lost \notin {disk0[p] : p \in Outside}
          /\ renames[r].dst.dir = InputOf(renames[r]).dir
    /\ \A p \in DOMAIN disk \ DOMAIN disk0 :
          \E r \in DOMAIN renames :
             renames[r].ok /\ renames[r].dst = p
             /\ p.dir = InputOf(renames[r]).dir
C19_Witness ==
    /\ Returned /\ N = 2 /\ renamed = 2
    /\ images[1].dir # images[2].dir
    /\ Outside = {P(Pics, "b.jpg"), P(Pics, "img_1.jpg")}
    /\ \A p \in Outside : disk[p] = disk0[p]

\* ------------------------------------------------------------ fs_service
\* a string is the tuple of its characters
Uppers == <<"A","B","C","D","E","F","G","H","I","J","K","L","M",
            "N","O","P","Q","R","S","T","U","V","W","X","Y","Z">>
Lowers == <<"a","b","c","d","e","f","g","h","i","j","k","l","m",
            "n","o","p","q","r","s","t","u","v","w","x","y","z">>
IndexIn(c, alphabet) ==
    IF \E k \in DOMAIN alphabet : alphabet[k] = c
    THEN CHOOSE k \in DOMAIN alphabet : alphabet[k] = c
    ELSE 0
\* the code point of a character
Ord(c) ==
    IF c = "." THEN 46
    ELSE IF IndexIn(c, Uppers) > 0 THEN 64 + IndexIn(c, Uppers)
    ELSE 96 + IndexIn(c, Lowers)

\* a comparison that keeps the case
lowerKept(str) == str
\* str.lower()
lower(str) ==
    [k \in DOMAIN str |->
        IF IndexIn(str[k], Uppers) > 0 THEN Lowers[IndexIn(str[k], Uppers)]
        ELSE str[k]]
\* str.startswith(".")
startswith_dot(str) == Len(str) >= 1 /\ str[1] = "."

\* fs_service.py lines 9-18
IMAGE_EXTENSIONS ==
    { <<".","p","n","g">>, <<".","j","p","g">>, <<".","j","p","e","g">>,
      <<".","b","m","p">>, <<".","g","i","f">>, <<".","w","e","b","p">>,
      <<".","t","i","f">>, <<".","t","i","f","f">> }

Exts(S) == [kind |-> "exts", name |-> "", exts |-> S]
\* lines 21-25
normalize_extensions(x) ==
    IF x.kind = "none" THEN IMAGE_EXTENSIONS
    ELSE { IF startswith_dot(ext) THEN lower(ext) ELSE <<".">> \o lower(ext)
           : ext \in x.exts }

\* PurePath.suffix: from the last dot of the name, when that dot is neither
\* the first nor the last character
suffix(name) ==
    LET dots == {k \in DOMAIN name : name[k] = "."}
        last_dot == CHOOSE k \in dots : \A k2 \in dots : k2 <= k
    IN  IF dots = {} THEN <<>>
        ELSE IF 1 < last_dot /\ last_dot < Len(name)
             THEN SubSeq(name, last_dot, Len(name))
             ELSE <<>>

\* str < str: by code point, a proper prefix first
OrdLess(c, d) == Ord(c) < Ord(d)
StrLess(a, b) ==
    \E k \in 1..Len(b) :
       /\ k <= Len(a) + 1
       /\ \A m \in 1..(k - 1) : a[m] = b[m]
       /\ IF k = Len(a) + 1 THEN TRUE ELSE OrdLess(a[k], b[k])
\* pathlib compares paths part by part, with the case folded on Windows
PartKey(part) == IF posix THEN part ELSE lower(part)
PartLess(a, b) == StrLess(PartKey(a), PartKey(b))
PathLess(p, q) ==
    \E k \in 1..Len(q) :
       /\ k <= Len(p) + 1
       /\ \A m \in 1..(k - 1) : p[m] = q[m]
       /\ IF k = Len(p) + 1 THEN TRUE ELSE PartLess(p[k], q[k])

\* sorted(paths): ascending, stable
RECURSIVE sorted(_)
sorted(paths) ==
    IF paths = <<>> THEN <<>>
    ELSE LET x == paths[Len(paths)]
             front == sorted(SubSeq(paths, 1, Len(paths) - 1))
             k == Cardinality({m \in DOMAIN front : ~PathLess(x, front[m])})
         IN  SubSeq(front, 1, k) \o <<x>> \o SubSeq(front, k + 1, Len(front))

\* the names of the modelled folder
n_a_jpg == <<"a", ".", "j", "p", "g">>
n_B_PNG == <<"B", ".", "P", "N", "G">>
n_c_txt == <<"c", ".", "t", "x", "t">>
n_gif == <<".", "g", "i", "f">>
n_b_gif == <<"b", ".", "g", "i", "f">>
n_n_JPEG == <<"n", ".", "J", "P", "E", "G">>

\* an entry below the folder: its path relative to the folder, what it is,
\* and whether the system lets it be read (a file's status, a directory's
\* contents)
Node(path, kind, access) == [path |-> path, kind |-> kind, access |-> access]
Candidates ==
    { Node(<<n_a_jpg>>, "file", "ok"), Node(<<n_a_jpg>>, "file", "denied"),
      Node(<<n_B_PNG>>, "file", "ok"),
      Node(<<n_c_txt>>, "file", "ok"),
      Node(<<n_gif>>, "file", "ok"),
      Node(<<n_b_gif>>, "dir", "ok"), Node(<<n_b_gif>>, "dir", "denied"),
      Node(<<n_b_gif, n_a_jpg>>, "file", "ok"),
      Node(<<n_b_gif, n_n_JPEG>>, "file", "ok") }
Parent(path) == SubSeq(path, 1, Len(path) - 1)
WellFormed(t) ==
    /\ \A e1, e2 \in t : e1.path = e2.path => e1 = e2
    /\ \A e \in t : Len(e.path) > 1 =>
          \E d \in t : d.path = Parent(e.path) /\ d.kind = "dir"
Trees == {t \in SUBSET Candidates : Cardinality(t) <= MaxEntries /\ WellFormed(t)}
ExtensionArgs ==
    { None,
      Exts({}),
      Exts({<<"j", "p", "g">>}),
      Exts({<<".", "P", "N", "G">>, <<"J", "p", "g">>}),
      Exts({<<"T", "X", "T">>}) }

\* every directory on the way to the entry lets its contents be read
Reachable(t, e) ==
    \A k \in 1..(Len(e.path) - 1) :
       \E d \in t : /\ d.path = SubSeq(e.path, 1, k)
                    /\ d.kind = "dir" /\ d.access = "ok"
\* line 42: what base.rglob("*") / base.iterdir() produce
Produced(f, t, r) ==
    IF f # "dir" THEN {}
    ELSE IF r THEN {e \in t : Reachable(t, e)}
    ELSE {e \in t : Len(e.path) = 1}
\* entry.is_file() raises OSError
StatRaises(e) == e.kind = "file" /\ e.access = "denied"
\* line 46
IsImage(e, allowed) ==
    /\ ~StatRaises(e)
    /\ e.kind = "file"
    /\ lower(suffix(e.path[Len(e.path)])) \in allowed

InitList ==
    /\ posix \in BOOLEAN
    /\ RenamerIdle
    /\ WindowIdle
    /\ StoreIdle
    /\ folder \in {"dir", "file", "locked"}
    /\ tree \in Trees
    /\ folder # "dir" => Cardinality(tree) <= 1
    /\ recursive \in BOOLEAN
    /\ extensions \in ExtensionArgs
    /\ iterator = {}
    /\ found = <<>>
    /\ listing = <<>>
    /\ lpc = "start"

\* lines 37-39: ValueError
NotADirectory ==
    /\ lpc = "start"
    /\ folder = "file"
    /\ lpc' = "raised"
    /\ UNCHANGED <<posix, renamer, window, store, folder, tree, recursive, extensions,
                   iterator, found, listing>>
\* line 44: iterdir() of a folder that cannot be read raises PermissionError
ScanRaises ==
    /\ lpc = "start"
    /\ folder = "locked" /\ ~recursive
    /\ lpc' = "raised"
    /\ UNCHANGED <<posix, renamer, window, store, folder, tree, recursive, extensions,
                   iterator, found, listing>>
\* lines 41-42
BeginLoop ==
    /\ lpc = "start"
    /\ folder = "dir" \/ (folder = "locked" /\ recursive)
    /\ iterator' = Produced(folder, tree, recursive)
    /\ lpc' = "loop"
    /\ UNCHANGED <<posix, renamer, window, store, folder, tree, recursive, extensions,
                   found, listing>>
\* lines 44-47: the next entry, in whatever order the system lists them
YieldEntry ==
    /\ lpc = "loop"
    /\ \E e \in iterator :
          /\ IsImage(e, normalize_extensions(extensions))
          /\ found' = Append(found, e.path)
          /\ iterator' = iterator \ {e}
    /\ UNCHANGED <<posix, renamer, window, store, folder, tree, recursive, extensions,
                   listing, lpc>>
\* line 46: not a file, or not an allowed suffix
PassEntry ==
    /\ lpc = "loop"
    /\ \E e \in iterator :
          /\ ~StatRaises(e)
          /\ ~IsImage(e, normalize_extensions(extensions))
          /\ iterator' = iterator \ {e}
    /\ UNCHANGED <<posix, renamer, window, store, folder, tree, recursive, extensions,
                   found, listing, lpc>>
\* lines 48-50: OSError, the entry is skipped
Unreadable ==
    /\ lpc = "loop"
    /\ \E e \in iterator :
          /\ StatRaises(e)
          /\ iterator' = iterator \ {e}
    /\ UNCHANGED <<posix, renamer, window, store, folder, tree, recursive, extensions,
                   found, listing, lpc>>
\* line 59
ReturnSorted ==
    /\ lpc = "loop"
    /\ iterator = {}
    /\ listing' = sorted(found)
    /\ lpc' = "returned"
    /\ UNCHANGED <<posix, renamer, window, store, folder, tree, recursive, extensions,
                   iterator, found>>

NextList ==
    \/ NotADirectory
    \/ ScanRaises
    \/ BeginLoop
    \/ YieldEntry
    \/ PassEntry
    \/ Unreadable
    \/ ReturnSorted

SpecList == InitList /\ [][NextList]_vars

\* upper-casing, for comparing without regard to case
upper(str) ==
    [k \in DOMAIN str |->
        IF IndexIn(str[k], Lowers) > 0 THEN Uppers[IndexIn(str[k], Lowers)]
        ELSE str[k]]
WithDot(ext) == IF startswith_dot(ext) THEN ext ELSE <<".">> \o ext
\* the suffix of the entry's name is, but for the case, an allowed extension
SuffixAllowed(e) ==
    LET sfx == suffix(e.path[Len(e.path)])
    IN  IF extensions.kind = "none"
        THEN \E x \in IMAGE_EXTENSIONS : upper(x) = upper(sfx)
        ELSE \E x \in extensions.exts : upper(WithDot(x)) = upper(sfx)
InScope(e) == recursive \/ Len(e.path) = 1
RegularFiles == {e \in tree : e.kind = "file" /\ InScope(e) /\ SuffixAllowed(e)}
ListedSet == {listing[k] : k \in DOMAIN listing}
OnceAscending ==
    \A k1, k2 \in DOMAIN listing : k1 < k2 => PathLess(listing[k1], listing[k2])

\* C11 (as stated): list_images returns exactly the regular files of the
\* folder (of the subtree when recursive, the direct children otherwise)
\* whose suffix is, case-insensitively, in the allowed extension set, each
\* once, in ascending order.
C11_ListsEveryRegularFile ==
    lpc = "returned" =>
       /\ ListedSet = {e.path : e \in RegularFiles}
       /\ OnceAscending
\* C11 (amended): list_images returns exactly those of these files whose
\* status can be read and that lie below directories whose contents can be
\* read, each once, in ascending order; the others are skipped silently.
C11_ListsEveryReadableFile ==
    lpc = "returned" =>
       /\ ListedSet = {e.path : e \in {f \in RegularFiles :
                                         /\ f.access = "ok"
                                         /\ folder = "dir"
                                         /\ Reachable(tree, f)}}
       /\ OnceAscending
C11_Witness ==
    /\ lpc = "returned"
    /\ recursive
    /\ extensions.kind = "exts"
    /\ Node(<<n_a_jpg>>, "file", "denied") \in tree
    /\ listing = IF posix THEN <<<<n_B_PNG>>, <<n_b_gif, n_a_jpg>>>>
                 ELSE <<<<n_b_gif, n_a_jpg>>, <<n_B_PNG>>>>

\* ------------------------------------------------------------ MainWindow
\* list_images as a function: the entries it yields, sorted
RECURSIVE SeqOf(_)
SeqOf(S) ==
    IF S = {} THEN <<>>
    ELSE LET x == CHOOSE y \in S : TRUE IN <<x>> \o SeqOf(S \ {x})
list_images(f, t, r, x) ==
    sorted(SeqOf({e.path : e \in {n \in Produced(f, t, r) :
                                     IsImage(n, normalize_extensions(x))}}))

\* the folders the user opens
WindowTrees ==
    { {Node(<<n_c_txt>>, "file", "ok")},
      {Node(<<n_a_jpg>>, "file", "ok")},
      {Node(<<n_a_jpg>>, "file", "ok"), Node(<<n_B_PNG>>, "file", "ok"),
       Node(<<n_c_txt>>, "file", "ok")},
      {Node(<<n_B_PNG>>, "file", "ok"), Node(<<n_b_gif>>, "dir", "ok"),
       Node(<<n_b_gif, n_n_JPEG>>, "file", "ok")},
      {Node(<<n_a_jpg>>, "file", "ok"), Node(<<n_B_PNG>>, "file", "ok"),
       Node(<<n_b_gif>>, "dir", "ok"),
       Node(<<n_b_gif, n_a_jpg>>, "file", "ok")} }
\* B.PNG may be a symbolic link to a.jpg
LinkChoices(t) ==
    IF \E e1, e2 \in t : e1.path = <<n_B_PNG>> /\ e2.path = <<n_a_jpg>>
    THEN {{}, {<<n_B_PNG>>}}
    ELSE {{}}
\* the file the dialog returns: none (a folder was picked) or a file of the folder
Selections(t) == {NoImage} \cup {e.path : e \in {n \in t : n.kind = "file" /\ Len(n.path) = 1}}
\* Path.resolve() below the opened folder
ResolveIn(lk, path) == IF path \in lk THEN <<n_a_jpg>> ELSE path

\* random.shuffle: every order of the list
Shuffles(rest) ==
    LET n == Len(rest)
        bij == {f \in [1..n -> 1..n] : \A a, b \in 1..n : f[a] = f[b] => a = b}
    IN  {[k \in 1..n |-> rest[f[k]]] : f \in bij}
Differs(lk, current, path) == ResolveIn(lk, path) # ResolveIn(lk, current)
\* lines 337-342: the lists _shuffle_keep_current can leave in _images
shuffle_keep_current(lk, imgs, current) ==
    LET rest == SelectSeq(imgs, LAMBDA path : Differs(lk, current, path))
    IN  {<<current>> \o mixed : mixed \in Shuffles(rest)}
\* lines 344-349
find_index(lk, imgs, path) ==
    LET hits == {k \in DOMAIN imgs : ResolveIn(lk, imgs[k]) = ResolveIn(lk, path)}
    IN  IF hits = {} THEN 0
        ELSE (CHOOSE k \in hits : \A k2 \in hits : k <= k2) - 1

Max(a, b) == IF a > b THEN a ELSE b
Min(a, b) == IF a < b THEN a ELSE b
\* image_canvas.py lines 38-50: the path the canvas holds after show_image,
\* none when the file cannot be loaded (it is gone, or a link to a file
\* that is gone)
show_image(present, lk, path) ==
    IF path \in present /\ ResolveIn(lk, path) \in present THEN path ELSE NoImage
\* lines 278-289 with _update_nav_buttons (365-369): imgs is _images by now,
\* present and lk the files and links of the folder
show_image_at_index(present, lk, imgs, index) ==
    IF imgs = <<>>
    THEN UNCHANGED <<_current_index, canvas, has_prev, has_next>>
    ELSE LET ix == Max(0, Min(index, Len(imgs) - 1))
         IN  /\ _current_index' = ix
             /\ canvas' = show_image(present, lk, imgs[ix + 1])
             /\ has_prev' = (ix > 0)
             /\ has_next' = (ix < Len(imgs) - 1)

\* the files of a folder
FilesOf(t) == {e.path : e \in {n \in t : n.kind = "file"}}

Before(op, sel, ok) ==
    [op |-> op, selected |-> sel, ok |-> ok,
     images |-> _images, index |-> _current_index, canvas |-> canvas]

InitWindow ==
    /\ posix \in BOOLEAN
    /\ RenamerIdle
    /\ ListerIdle
    /\ WindowIdle
    /\ StoreIdle

\* lines 250-256: the folder holds no image
OpenEmptyFolder ==
    \E t \in WindowTrees :
       /\ list_images("dir", t, TRUE, None) = <<>>
       /\ \E sel \in Selections(t) : last' = Before("open", sel, FALSE)
       /\ _images' = <<>>
       /\ canvas' = NoImage
       /\ has_prev' = (_current_index > 0)
       /\ has_next' = FALSE
       /\ links' = {}
       /\ files' = FilesOf(t)
       /\ UNCHANGED <<_current_index, _random_mode>>
       /\ UNCHANGED <<posix, renamer, lister, store>>
\* lines 232-245, 258-276: a folder with images
OpenFolder ==
    \E t \in WindowTrees :
     \E lk \in LinkChoices(t), sel \in Selections(t) :
       LET imgs == list_images("dir", t, TRUE, None)
           idx == find_index(lk, imgs, sel)
           hit == sel # NoImage /\
                  \E k \in DOMAIN imgs : ResolveIn(lk, imgs[k]) = ResolveIn(lk, sel)
           start == IF hit THEN idx ELSE 0
           target == imgs[start + 1]
       IN  /\ imgs # <<>>
           /\ last' = Before("open", sel, TRUE)
           /\ links' = lk
           /\ files' = FilesOf(t)
           /\ \E shown \in (IF _random_mode
                            THEN shuffle_keep_current(lk, imgs, target)
                            ELSE {imgs}) :
                 /\ _images' = shown
                 /\ show_image_at_index(FilesOf(t), lk, shown, start)
           /\ UNCHANGED _random_mode
           /\ UNCHANGED <<posix, renamer, lister, store>>

\* lines 291-293
ShowPrev ==
    /\ last' = Before("prev", NoImage, TRUE)
    /\ IF _current_index > 0
       THEN show_image_at_index(files, links, _images, _current_index - 1)
       ELSE UNCHANGED <<_current_index, canvas, has_prev, has_next>>
    /\ UNCHANGED <<_images, _random_mode, links, files>>
    /\ UNCHANGED <<posix, renamer, lister, store>>
\* lines 295-297
ShowNext ==
    /\ last' = Before("next", NoImage, TRUE)
    /\ IF _images # <<>> /\ _current_index < Len(_images) - 1
       THEN show_image_at_index(files, links, _images, _current_index + 1)
       ELSE UNCHANGED <<_current_index, canvas, has_prev, has_next>>
    /\ UNCHANGED <<_images, _random_mode, links, files>>
    /\ UNCHANGED <<posix, renamer, lister, store>>

\* lines 299-313: the check box changed to `checked`
RandomToggled ==
    LET checked == ~_random_mode
    IN  /\ _random_mode' = checked
        /\ last' = Before(IF checked THEN "random_on" ELSE "random_off",
                          NoImage, TRUE)
        /\ IF _images = <<>>
           THEN UNCHANGED <<_images, _current_index, canvas, has_prev, has_next>>
           ELSE LET current == _images[_current_index + 1]
                IN  IF checked
                    THEN \E shown \in shuffle_keep_current(links, _images, current) :
                            /\ _images' = shown
                            /\ show_image_at_index(files, links, shown, 0)
                    ELSE /\ _images' = sorted(_images)
                         /\ show_image_at_index(
                               files, links, sorted(_images),
                               find_index(links, sorted(_images), current))
        /\ UNCHANGED <<links, files>>
        /\ UNCHANGED <<posix, renamer, lister, store>>

\* lines 316-317: nothing to delete
DeleteNoImage ==
    /\ _images = <<>>
    /\ last' = Before("delete", NoImage, FALSE)
    /\ UNCHANGED <<_images, _current_index, _random_mode, canvas, has_prev,
                   has_next, links, files>>
    /\ UNCHANGED <<posix, renamer, lister, store>>
\* lines 318-323: _send_to_trash raises
DeleteFails ==
    /\ _images # <<>>
    /\ last' = Before("delete", _images[_current_index + 1], FALSE)
    /\ UNCHANGED <<_images, _current_index, _random_mode, canvas, has_prev,
                   has_next, links, files>>
    /\ UNCHANGED <<posix, renamer, lister, store>>
\* a delete that always takes the first entry
WithoutFirst(imgs, index) == Tail(imgs)
\* del list[index]
Without(imgs, index) ==
    SubSeq(imgs, 1, index) \o SubSeq(imgs, index + 2, Len(imgs))
\* a delete that neither moves the index nor shows the next image
DeleteCurrentNoRedisplay ==
    /\ _images # <<>>
    /\ last' = Before("delete", _images[_current_index + 1], TRUE)
    /\ _images' = Without(_images, _current_index)
    /\ files' = files \ {_images[_current_index + 1]}
    /\ UNCHANGED <<_current_index, canvas, has_prev, has_next>>
    /\ UNCHANGED <<_random_mode, links>>
    /\ UNCHANGED <<posix, renamer, lister, store>>
\* lines 318-335: the current image goes to the trash
DeleteCurrent ==
    /\ _images # <<>>
    /\ last' = Before("delete", _images[_current_index + 1], TRUE)
    /\ LET imgs == Without(_images, _current_index)
           idx == IF _current_index >= Len(imgs)
                  THEN Max(0, Len(imgs) - 1)
                  ELSE _current_index
       IN  /\ _images' = imgs
           /\ IF imgs # <<>>
              THEN show_image_at_index(files \ {_images[_current_index + 1]},
                                       links, imgs, idx)
              ELSE /\ _current_index' = idx
                   /\ canvas' = NoImage
                   /\ UNCHANGED <<has_prev, has_next>>
    /\ files' = files \ {_images[_current_index + 1]}
    /\ UNCHANGED <<_random_mode, links>>
    /\ UNCHANGED <<posix, renamer, lister, store>>

NextWindow ==
    \/ OpenEmptyFolder
    \/ OpenFolder
    \/ ShowPrev
    \/ ShowNext
    \/ RandomToggled
    \/ DeleteNoImage
    \/ DeleteFails
    \/ DeleteCurrent

SpecWindow == InitWindow /\ [][NextWindow]_vars

\* C20: after _on_open_folder has loaded a folder with a selected image that
\* is in the list, the image on display is the entry at _current_index and
\* is the selected image, in sequential and in random mode.
C20_OpenShowsSelected ==
    (/\ last.op = "open" /\ last.ok
     /\ last.selected # NoImage
     /\ \E k \in DOMAIN _images : _images[k] = last.selected)
    => /\ canvas = _images[_current_index + 1]
       /\ ResolveIn(links, canvas) = ResolveIn(links, last.selected)

\* C21: after any sequence of handlers the navigation buttons agree with the
\* navigation state: previous is enabled exactly when the list is not empty
\* and _current_index > 0, next exactly when _current_index < len(_images) - 1;
\* both are disabled whenever the list is empty.
C21_NavButtonsAgree ==
    /\ has_prev = (_images # <<>> /\ _current_index > 0)
    /\ has_next = (_current_index < Len(_images) - 1)

Unmoved ==
    /\ _images = last.images
    /\ _current_index = last.index
    /\ canvas = last.canvas
\* C22: whenever the list is not empty, 0 <= _current_index < len(_images),
\* after any sequence of handlers; previous at index 0 and next at the last
\* index change nothing.
C22_IndexInRange ==
    /\ _images # <<>> => (0 <= _current_index /\ _current_index < Len(_images))
    /\ (last.op = "prev" /\ last.images # <<>> /\ last.index = 0) => Unmoved
    /\ (last.op = "next" /\ last.images # <<>>
        /\ last.index = Len(last.images) - 1) => Unmoved
C22_Witness ==
    /\ last.op = "next"
    /\ Len(last.images) = 3 /\ last.index = 2
    /\ _current_index = 2 /\ canvas = _images[3]

Toggled == last.op \in {"random_on", "random_off"} /\ last.images # <<>>
Elements(list) == {list[k] : k \in DOMAIN list}
IsPermutation(list, other) ==
    /\ Len(list) = Len(other)
    /\ \A x \in Elements(list) \cup Elements(other) :
          Cardinality({k \in DOMAIN list : list[k] = x})
             = Cardinality({k \in DOMAIN other : other[k] = x})
\* C23: a random-mode toggle neither adds nor removes an image and keeps the
\* image on display: the list is a permutation of the list before (the
\* current image first when turned on, ascending order when turned off) and
\* the entry at _current_index is the image displayed before the toggle.
C23_ToggleKeepsImages ==
    Toggled =>
       /\ IsPermutation(_images, last.images)
       /\ ResolveIn(links, canvas) = ResolveIn(links, last.canvas)
       /\ last.canvas # NoImage =>
             ResolveIn(links, _images[_current_index + 1])
                = ResolveIn(links, last.canvas)
       /\ last.op = "random_on" =>
             /\ _current_index = 0
             /\ _images[1] = last.images[last.index + 1]
       /\ last.op = "random_off" =>
             \A k1, k2 \in DOMAIN _images :
                k1 < k2 => ~PathLess(_images[k2], _images[k1])

Deleted == last.op = "delete" /\ last.ok
\* the list before the delete, with the entry at the index taken out
Remaining ==
    [k \in 1..(Len(last.images) - 1) |->
        IF k <= last.index THEN last.images[k] ELSE last.images[k + 1]]
\* the entry a successful delete makes current
Follower ==
    IF last.index = Len(last.images) - 1
    THEN last.images[Len(last.images) - 1]
    ELSE last.images[last.index + 2]
DeleteFailed == last.op = "delete" /\ ~last.ok
\* C24 (as stated): a delete whose trash call fails leaves list and index as
\* they were; one that succeeds removes exactly the current entry, keeps the
\* order of the others and displays the entry that followed it, or the new
\* last entry when it was last, or nothing when the list became empty.
C24_DeleteCurrent ==
    /\ DeleteFailed =>
          /\ _images = last.images
          /\ _current_index = last.index
    /\ Deleted =>
          /\ last.selected = last.images[last.index + 1]
          /\ _images = Remaining
          /\ IF Len(last.images) = 1 THEN canvas = NoImage
             ELSE canvas = Follower
          /\ _images # <<>> => canvas = _images[_current_index + 1]
\* C24 (amended): the same, except that the follower (or new last entry)
\* becomes the current entry and is displayed only when its file can still be
\* loaded; when it cannot (a link to the file just deleted) the canvas shows
\* no image.
C24_DeleteCurrentLoadable ==
    /\ DeleteFailed =>
          /\ _images = last.images
          /\ _current_index = last.index
          /\ canvas = last.canvas
    /\ Deleted =>
          /\ last.selected = last.images[last.index + 1]
          /\ last.selected \notin files
          /\ _images = Remaining
          /\ IF Len(last.images) = 1 THEN canvas = NoImage
             ELSE /\ _images[_current_index + 1] = Follower
                  /\ IF ResolveIn(links, Follower) \in files
                     THEN canvas = Follower
                     ELSE canvas = NoImage
C24_Witness ==
    /\ Deleted
    /\ Len(last.images) = 3 /\ last.index = 1
    /\ Len(_images) = 2 /\ _current_index = 1
    /\ _images[2] \in links
    /\ canvas = NoImage

\* ------------------------------------------------------------ session_store
\* Python values, by type and repr
PyStr(text) == [type |-> "str", repr |-> text]
PyBool(b) == [type |-> "bool", repr |-> IF b THEN "True" ELSE "False"]
PyInt(digits) == [type |-> "int", repr |-> digits]
PyNone == [type |-> "NoneType", repr |-> "None"]
\* JSON tokens
JString(text) == [json |-> "string", text |-> text]
JNumber(text) == [json |-> "number", text |-> text]
JLiteral(text) == [json |-> "literal", text |-> text]

\* a writer that stores str(value)
encodeAsText(v) == JString(v.repr)
\* line 52, json.dumps of one value
encode(v) ==
    CASE v.type = "str" -> JString(v.repr)
      [] v.type = "bool" -> JLiteral(IF v.repr = "True" THEN "true" ELSE "false")
      [] v.type = "int" -> JNumber(v.repr)
      [] OTHER -> JLiteral("null")
\* line 37, json.loads of one value
decode(tok) ==
    CASE tok.json = "string" -> PyStr(tok.text)
      [] tok.json = "number" -> PyInt(tok.text)
      [] tok.json = "literal" /\ tok.text = "true" -> PyBool(TRUE)
      [] tok.json = "literal" /\ tok.text = "false" -> PyBool(FALSE)
      [] OTHER -> PyNone

DefaultKeys ==
    {"last_folder", "open_path", "sort_mode", "sort_ascending", "last_keyword",
     "batch_path"}
\* lines 21-28
DEFAULT ==
    [k \in DefaultKeys |->
        CASE k = "sort_mode" -> PyStr("date")
          [] k = "sort_ascending" -> PyBool(FALSE)
          [] OTHER -> PyStr("")]
EmptyDict == [k \in {} |-> PyNone]
\* lines 40-41 and 50-51: the defaults, updated with the known keys of d
merged(d) == [k \in DefaultKeys |-> IF k \in DOMAIN d THEN d[k] ELSE DEFAULT[k]]

\* the file as text: not JSON, a JSON array, or a JSON object with members
Text(shape, members) == [kind |-> "text", shape |-> shape, members |-> members]
Garbage == Text("garbage", <<>>)
ArrayDoc == Text("array", <<>>)
\* json.dumps(dict)
dumps(d) == Text("object", [k \in DOMAIN d |-> encode(d[k])])
\* json.loads of an object
loads(file) == [k \in DOMAIN file.members |-> decode(file.members[k])]

\* the states handed to save_session: any of these keys, "zoom" being unknown
ArgKeys == {"last_folder", "sort_mode", "sort_ascending", "zoom"}
ArgValue(k) ==
    CASE k = "last_folder" -> PyStr("/pics")
      [] k = "sort_mode" -> PyStr("name")
      [] k = "sort_ascending" -> PyBool(TRUE)
      [] OTHER -> PyInt("2")
SessionArgs == {[k \in K |-> ArgValue(k)] : K \in SUBSET ArgKeys}
\* what another program or the user may leave in the file
EditedFiles ==
    { NoFile, Garbage, ArrayDoc,
      Text("object", EmptyDict),
      Text("object", [k \in {"sort_mode", "zoom"} |->
                        IF k = "zoom" THEN JNumber("2") ELSE JString("name")]),
      Text("object", [k \in {"sort_mode", "sort_ascending"} |->
                        IF k = "sort_mode" THEN JLiteral("null")
                        ELSE JString("yes")]) }

\* the record of one operation, with the file as it was before
Op(op, arg, ok, result) ==
    [op |-> op, arg |-> arg, ok |-> ok, result |-> result, file |-> state_file]
Logged(rec) ==
    IF Len(session_ops) < 2 THEN Append(session_ops, rec)
    ELSE <<session_ops[2], rec>>

InitStore ==
    /\ posix \in BOOLEAN
    /\ RenamerIdle
    /\ ListerIdle
    /\ WindowIdle
    /\ StoreIdle

\* lines 31-44, nothing raising
LoadSession ==
    /\ LET result == IF state_file.kind = "text" /\ state_file.shape = "object"
                     THEN merged(loads(state_file))
                     ELSE DEFAULT
       IN  session_ops' = Logged(Op("load", EmptyDict, TRUE, result))
    /\ state_file' = IF state_file.kind = "missing" THEN dumps(DEFAULT)
                     ELSE state_file
    /\ UNCHANGED <<posix, renamer, lister, window>>
\* lines 43-44: mkdir, read_text or write_text raises
LoadSessionFails ==
    /\ session_ops' = Logged(Op("load", EmptyDict, FALSE, DEFAULT))
    /\ \/ UNCHANGED state_file
       \/ state_file.kind = "missing" /\ state_file' = Garbage
    /\ UNCHANGED <<posix, renamer, lister, window>>
\* lines 47-52
SaveSession ==
    \E s \in SessionArgs :
       /\ session_ops' = Logged(Op("save", s, TRUE, EmptyDict))
       /\ state_file' = dumps(merged(s))
       /\ UNCHANGED <<posix, renamer, lister, window>>
\* lines 53-54: mkdir or write_text raises; the file is as it was, or cut short
SaveSessionFails ==
    \E s \in SessionArgs :
       /\ session_ops' = Logged(Op("save", s, FALSE, EmptyDict))
       /\ state_file' \in {state_file, Garbage}
       /\ UNCHANGED <<posix, renamer, lister, window>>
\* the file changes outside the program
EditFile ==
    \E f \in EditedFiles :
       /\ f # state_file
       /\ session_ops' = Logged(Op("edit", EmptyDict, TRUE, EmptyDict))
       /\ state_file' = f
       /\ UNCHANGED <<posix, renamer, lister, window>>

NextStore ==
    \/ LoadSession
    \/ LoadSessionFails
    \/ SaveSession
    \/ SaveSessionFails
    \/ EditFile

SpecStore == InitStore /\ [][NextStore]_vars

Loads == {n \in DOMAIN session_ops : session_ops[n].op = "load"}
\* every load returns exactly the six keys: for a JSON object the decoded
\* members of the known keys and the defaults for the others, for anything
\* else the defaults
LoadsWell ==
    \A n \in Loads :
       LET l == session_ops[n]
       IN  /\ DOMAIN l.result = DefaultKeys
           /\ IF l.ok /\ l.file.kind = "text" /\ l.file.shape = "object"
              THEN \A k \in DefaultKeys :
                      l.result[k] = IF k \in DOMAIN l.file.members
                                    THEN decode(l.file.members[k])
                                    ELSE DEFAULT[k]
              ELSE l.result = DEFAULT
SaveThenLoad ==
    /\ Len(session_ops) = 2
    /\ session_ops[1].op = "save"
    /\ session_ops[2].op = "load"
RoundTrip ==
    \A k \in DefaultKeys :
       session_ops[2].result[k] = IF k \in DOMAIN session_ops[1].arg
                                  THEN session_ops[1].arg[k]
                                  ELSE DEFAULT[k]

\* C25 (as stated): load_session always returns a state with exactly the six
\* default keys (defaults for a missing, unreadable or non-object file), and
\* save_session(s) followed by load_session() returns, for each of the six
\* keys, the value of s when s has the key and the default otherwise.
C25_SaveThenLoad ==
    /\ LoadsWell
    /\ SaveThenLoad => RoundTrip
\* C25 (amended): the same, for a save that wrote the file and a load that
\* could read it; a failed save is swallowed and leaves the old file or a
\* file cut short, which the next load reports.
C25_SaveThenLoadWritten ==
    /\ LoadsWell
    /\ (SaveThenLoad /\ session_ops[1].ok /\ session_ops[2].ok) => RoundTrip
C25_Witness ==
    /\ SaveThenLoad /\ session_ops[1].ok /\ session_ops[2].ok
    /\ DOMAIN session_ops[1].arg = {"sort_ascending", "zoom"}
    /\ session_ops[1].file = Garbage
    /\ session_ops[2].result["sort_ascending"] = PyBool(TRUE)
    /\ session_ops[2].result["sort_mode"] = PyStr("date")

====
